---------------------------- MODULE Spec2Model ----------------------------
(***************************************************************************)
(* Chembot: question classification, input validation, context            *)
(* aggregation (search engine) and the ask pipeline of the bot engine.    *)
(*                                                                         *)
(* Texts are TLA+ strings; Len, SubSeq and \o act on them character by    *)
(* character, so substring tests, lower-casing, trimming and pattern      *)
(* scans are computed on the characters as the Python code computes them. *)
(***************************************************************************)
EXTENDS Integers, Sequences, FiniteSets, TLC

VARIABLES
    op,             \* the operation applied last
    question,       \* the question text handed to the operation
    category,       \* result of categorize_question
    validation,     \* result of validate_input
    results,        \* the candidates of all providers, in provider order
    unique_results, \* result of _deduplicate_results
    search_results, \* result of search_web
    bundle,         \* the candidates get_relevant_context renders
    web_context,    \* result of get_relevant_context
    is_initialized,         \* ChemEBot.is_initialized
    has_history,            \* whether the attribute conversation_history is set
    conversation_history,   \* ChemEBot.conversation_history
    interaction_log,        \* st.session_state.interaction_log
    now,                    \* the clock, time.time()
    calls,                  \* number of calls of ask so far
    include_web_search,     \* argument of the last call of ask
    wiki_replies,           \* replies its Wikipedia lookups received
    completion,             \* reply its completion call received
    injected_fault,         \* the step at which the environment made it raise
    raised_at,              \* the step of its try block that raised
    raised,                 \* whether an exception left ask
    start_time,             \* the clock when its pipeline started
    response,               \* what it returned
    prompt,                 \* the prompt it handed to the completion service
    statistics,     \* result of get_statistics
    cleaned,        \* result of clean_text
    pc,             \* where each thread running ask is
    frame,          \* the local values of each thread
    lists,          \* the list objects st.session_state.interaction_log was bound to
    log_at,         \* the one it is bound to now, 0 while the key is absent
    appends         \* the threads in the order of their appends to the log

classifyVars == <<category, validation>>

searchVars == <<results, unique_results, search_results, bundle, web_context>>

botVars == <<is_initialized, has_history, conversation_history, interaction_log, now>>

callVars == <<calls, include_web_search, wiki_replies, completion, injected_fault, raised_at,
              raised, start_time, response, prompt>>

threadVars == <<pc, frame, lists, log_at, appends>>

vars == <<op, question, classifyVars, searchVars, botVars, callVars, statistics, cleaned,
          threadVars>>

---------------------------------------------------------------------------
(* Bounds of the model *)

\* number of vocabulary tokens concatenated into a question text
MaxTokens == 3

\* number of candidates in a list with repeated and empty urls
MaxCandidates == 3

\* number of candidates in a list with pairwise different urls
MaxRanked == 6

\* number of calls of ask in a session
MaxAsks == 2

\* number of recorded turns in a conversation history
MaxTurns == 3

\* number of characters in a raw text
MaxChars == 4

\* number of threads running ask at the same time
MaxThreads == 2

---------------------------------------------------------------------------
(* Strings *)

SetMin(S) == CHOOSE m \in S : \A n \in S : m <= n

SetMax(S) == CHOOSE m \in S : \A n \in S : n <= m

\* s[i], as a one-character string
CharAt(s, i) == SubSeq(s, i, i)

\* Python's `k in s` for strings
In(k, s) == \E i \in 1..(Len(s) - Len(k) + 1) : SubSeq(s, i, i + Len(k) - 1) = k

RECURSIVE Rep(_, _)
\* Python's c * n
Rep(c, n) ==
    IF n <= 0 THEN ""
    ELSE IF n = 1 THEN c
    ELSE Rep(c, n \div 2) \o Rep(c, n - (n \div 2))

RECURSIVE Concat(_)
\* ''.join(ts)
Concat(ts) == IF ts = <<>> THEN "" ELSE Head(ts) \o Concat(Tail(ts))

\* the lower-case form of each upper-case letter
LowerOf ==
    [A |-> "a", B |-> "b", C |-> "c", D |-> "d", E |-> "e", F |-> "f", G |-> "g",
     H |-> "h", I |-> "i", J |-> "j", K |-> "k", L |-> "l", M |-> "m", N |-> "n",
     O |-> "o", P |-> "p", Q |-> "q", R |-> "r", S |-> "s", T |-> "t", U |-> "u",
     V |-> "v", W |-> "w", X |-> "x", Y |-> "y", Z |-> "z"]

LowerChar(c) == IF c \in DOMAIN LowerOf THEN LowerOf[c] ELSE c

RECURSIVE lower(_)
\* str.lower()
lower(s) ==
    IF Len(s) <= 1 THEN LowerChar(s)
    ELSE LET h == Len(s) \div 2
         IN  lower(SubSeq(s, 1, h)) \o lower(SubSeq(s, h + 1, Len(s)))

Whitespace == {" ", "\t", "\n", "\r", "\f"}

\* str.strip()
strip(s) ==
    LET keep == {i \in 1..Len(s) : CharAt(s, i) \notin Whitespace}
    IN  IF keep = {} THEN "" ELSE SubSeq(s, SetMin(keep), SetMax(keep))

\* any(word in text for word in words)
AnyIn(words, text) == \E word \in words : In(word, text)

---------------------------------------------------------------------------
(* utils.clean_text *)

\* the ASCII characters \w matches
WordChars ==
    {"a", "b", "c", "d", "e", "f", "g", "h", "i", "j", "k", "l", "m",
     "n", "o", "p", "q", "r", "s", "t", "u", "v", "w", "x", "y", "z",
     "A", "B", "C", "D", "E", "F", "G", "H", "I", "J", "K", "L", "M",
     "N", "O", "P", "Q", "R", "S", "T", "U", "V", "W", "X", "Y", "Z",
     "0", "1", "2", "3", "4", "5", "6", "7", "8", "9", "_"}

\* the ASCII characters the pattern of line 29 keeps besides \w and \s
KeptChars == {"(", ")", "+", "-", "=", "/", "\\"}

\* re.sub(r'\s+', ' ', text)
collapse_whitespace(text) ==
    Concat([i \in 1..Len(text) |->
               IF CharAt(text, i) \notin Whitespace THEN CharAt(text, i)
               ELSE IF i > 1 /\ CharAt(text, i - 1) \in Whitespace THEN ""
               ELSE " "])

\* re.sub(r'[^\w\s\(\)\+\-=\/\\...]', ' ', text)
replace_special(text) ==
    Concat([i \in 1..Len(text) |->
               IF CharAt(text, i) \in WordChars \cup Whitespace \cup KeptChars
               THEN CharAt(text, i) ELSE " "])

\* a plausible slip: the final strip() left out
clean_text_unstripped(text) ==
    IF text = "" THEN ""
    ELSE collapse_whitespace(replace_special(strip(collapse_whitespace(text))))

\* ' '.join(text.split()) is the text with its whitespace runs collapsed and
\* its ends trimmed
clean_text(text) ==
    IF text = "" THEN ""
    ELSE strip(collapse_whitespace(replace_special(strip(collapse_whitespace(text)))))

---------------------------------------------------------------------------
(* utils.categorize_question *)

safety_words == {"safe", "hazard", "danger", "toxic", "risk", "accident", "emergency"}

calc_words == {"calculate", "compute", "find", "determine", "solve", "how much", "what is the"}

design_words == {"design", "size", "select", "choose", "optimize", "specify"}

theory_words == {"explain", "what is", "how does", "why", "difference", "compare"}

\* the values categorize_question returns
Categories == {"calculation", "theory", "safety", "design", "general"}

\* a plausible slip: the calculation test placed before the safety test
categorize_question_calc_first(q) ==
    LET question_lower == lower(q)
    IN  IF AnyIn(calc_words, question_lower) THEN "calculation"
        ELSE IF AnyIn(safety_words, question_lower) THEN "safety"
        ELSE IF AnyIn(design_words, question_lower) THEN "design"
        ELSE IF AnyIn(theory_words, question_lower) THEN "theory"
        ELSE "general"

\* a plausible slip: the theory test placed before the design test
categorize_question_theory_first(q) ==
    LET question_lower == lower(q)
    IN  IF AnyIn(safety_words, question_lower) THEN "safety"
        ELSE IF AnyIn(calc_words, question_lower) THEN "calculation"
        ELSE IF AnyIn(theory_words, question_lower) THEN "theory"
        ELSE IF AnyIn(design_words, question_lower) THEN "design"
        ELSE "general"

categorize_question(q) ==
    LET question_lower == lower(q)
    IN  IF AnyIn(safety_words, question_lower) THEN "safety"
        ELSE IF AnyIn(calc_words, question_lower) THEN "calculation"
        ELSE IF AnyIn(design_words, question_lower) THEN "design"
        ELSE IF AnyIn(theory_words, question_lower) THEN "theory"
        ELSE "general"

---------------------------------------------------------------------------
(* utils.validate_input *)

MinQuestionLen == 3

MaxQuestionLen == 1000

inappropriate_words == {"spam", "test123", "asdf"}

MsgEmpty == "Please enter a question."

MsgShort == "Please enter a more detailed question."

MsgLong == "Question is too long. Please keep it under 1000 characters."

MsgGenuine == "Please enter a genuine chemical engineering question."

\* validate_input has not been called
NoValidation == [is_valid |-> FALSE, error_message |-> "not validated"]

\* a plausible slip: the minimum is tested on the raw text, not the trimmed one
validate_input_untrimmed(q) ==
    IF q = "" \/ strip(q) = ""
    THEN [is_valid |-> FALSE, error_message |-> MsgEmpty]
    ELSE IF Len(q) < MinQuestionLen
    THEN [is_valid |-> FALSE, error_message |-> MsgShort]
    ELSE IF Len(q) > MaxQuestionLen
    THEN [is_valid |-> FALSE, error_message |-> MsgLong]
    ELSE IF AnyIn(inappropriate_words, lower(q))
    THEN [is_valid |-> FALSE, error_message |-> MsgGenuine]
    ELSE [is_valid |-> TRUE, error_message |-> ""]

validate_input(q) ==
    IF q = "" \/ strip(q) = ""
    THEN [is_valid |-> FALSE, error_message |-> MsgEmpty]
    ELSE IF Len(strip(q)) < MinQuestionLen
    THEN [is_valid |-> FALSE, error_message |-> MsgShort]
    ELSE IF Len(q) > MaxQuestionLen
    THEN [is_valid |-> FALSE, error_message |-> MsgLong]
    ELSE IF AnyIn(inappropriate_words, lower(q))
    THEN [is_valid |-> FALSE, error_message |-> MsgGenuine]
    ELSE [is_valid |-> TRUE, error_message |-> ""]

---------------------------------------------------------------------------
(* Sequences *)

\* xs[:n]
Take(xs, n) == SubSeq(xs, 1, IF n < Len(xs) THEN n ELSE Len(xs))

RECURSIVE Join(_, _)
\* sep.join(parts)
Join(sep, parts) ==
    IF parts = <<>> THEN ""
    ELSE IF Len(parts) = 1 THEN parts[1]
    ELSE parts[1] \o sep \o Join(sep, Tail(parts))

---------------------------------------------------------------------------
(* search_engine.ChemESearchEngine *)

max_results == 5

\* the number of top results get_relevant_context reads
context_results == 3

\* priority of a Wikipedia candidate
wikipedia_priority == 8

educational_topics == <<"distillation", "reactor", "heat exchanger">>

educational_content(topic) ==
    CASE topic = "distillation" ->
            [title |-> "Distillation - Chemical Engineering",
             url |-> "https://en.wikipedia.org/wiki/Distillation",
             snippet |-> "Distillation is a separation process that exploits differences in volatility of components in a liquid mixture.",
             source |-> "Educational",
             priority |-> 7]
      [] topic = "reactor" ->
            [title |-> "Chemical Reactor Design",
             url |-> "https://en.wikipedia.org/wiki/Chemical_reactor",
             snippet |-> "A chemical reactor is an enclosed volume in which a chemical reaction takes place.",
             source |-> "Educational",
             priority |-> 7]
      [] topic = "heat exchanger" ->
            [title |-> "Heat Exchanger Design",
             url |-> "https://en.wikipedia.org/wiki/Heat_exchanger",
             snippet |-> "A heat exchanger is a system used to transfer heat between two or more fluids.",
             source |-> "Educational",
             priority |-> 7]

RECURSIVE educational_matches(_, _)
\* the table entries whose topic occurs in query_lower, in table order
educational_matches(topics, query_lower) ==
    IF topics = <<>> THEN <<>>
    ELSE (IF In(Head(topics), query_lower)
          THEN <<educational_content(Head(topics))>> ELSE <<>>)
         \o educational_matches(Tail(topics), query_lower)

search_educational_sites(query) ==
    educational_matches(educational_topics, lower(query))

RECURSIVE dedup_from(_, _)
\* the loop of _deduplicate_results, seen_urls being the urls kept so far
dedup_from(rs, seen_urls) ==
    IF rs = <<>> THEN <<>>
    ELSE LET url == Head(rs).url
         IN  IF url # "" /\ url \notin seen_urls
             THEN <<Head(rs)>> \o dedup_from(Tail(rs), seen_urls \cup {url})
             ELSE dedup_from(Tail(rs), seen_urls)

RECURSIVE insert_by_priority(_, _)
\* x placed behind every element of priority >= its own
insert_by_priority(x, sorted) ==
    IF sorted = <<>> THEN <<x>>
    ELSE IF Head(sorted).priority >= x.priority
    THEN <<Head(sorted)>> \o insert_by_priority(x, Tail(sorted))
    ELSE <<x>> \o sorted

RECURSIVE sorted_by_priority(_)
\* sorted(rs, key=priority, reverse=True): stable, descending
sorted_by_priority(rs) ==
    IF rs = <<>> THEN <<>>
    ELSE insert_by_priority(rs[Len(rs)], sorted_by_priority(SubSeq(rs, 1, Len(rs) - 1)))

\* a plausible slip: ranking before deduplication, so the best instance wins
deduplicate_results_sort_first(rs) == dedup_from(sorted_by_priority(rs), {})

deduplicate_results(rs) == sorted_by_priority(dedup_from(rs, {}))

\* _scrape_search_results once the providers have answered
combine_results(rs) == Take(deduplicate_results(rs), max_results)

\* a plausible slip: one result too many read
top_results_off_by_one(rs) == Take(rs, context_results + 1)

\* search_results[:3]
top_results(rs) == Take(rs, context_results)

RECURSIVE context_parts_unfiltered(_)
\* a plausible slip: the test for an empty snippet left out
context_parts_unfiltered(rs) ==
    IF rs = <<>> THEN <<>>
    ELSE <<"From " \o Head(rs).source \o ": " \o Head(rs).snippet>>
         \o context_parts_unfiltered(Tail(rs))

RECURSIVE context_parts(_)
context_parts(rs) ==
    IF rs = <<>> THEN <<>>
    ELSE (IF Head(rs).snippet # ""
          THEN <<"From " \o Head(rs).source \o ": " \o Head(rs).snippet>>
          ELSE <<>>)
         \o context_parts(Tail(rs))

\* get_relevant_context once search_web has answered
render_context(rs) ==
    IF rs = <<>> THEN "" ELSE Join("\n\n", context_parts(top_results(rs)))

---------------------------------------------------------------------------
(* More string operations *)

\* position of the first occurrence of k in s at or after from, 0 if none
Find(s, k, from) ==
    LET hits == {i \in from..(Len(s) - Len(k) + 1) : SubSeq(s, i, i + Len(k) - 1) = k}
    IN  IF hits = {} THEN 0 ELSE SetMin(hits)

RECURSIVE split(_, _)
\* s.split(sep)
split(s, sep) ==
    LET i == Find(s, sep, 1)
    IN  IF i = 0 THEN <<s>>
        ELSE <<SubSeq(s, 1, i - 1)>> \o split(SubSeq(s, i + Len(sep), Len(s)), sep)

startswith(s, k) == Len(s) >= Len(k) /\ SubSeq(s, 1, Len(k)) = k

endswith(s, k) == Len(s) >= Len(k) /\ SubSeq(s, Len(s) - Len(k) + 1, Len(s)) = k

RECURSIVE strip_each(_)
strip_each(xs) == IF xs = <<>> THEN <<>> ELSE <<strip(Head(xs))>> \o strip_each(Tail(xs))

---------------------------------------------------------------------------
(* utils.format_response_for_display *)

MsgNoResponse == "No response generated."

format_section(stripped) ==
    LET section == IF startswith(stripped, "**") /\ endswith(stripped, "**")
                   THEN "\n### " \o SubSeq(stripped, 3, Len(stripped) - 2) \o "\n"
                   ELSE stripped
    IN  Join("\n", strip_each(split(section, "\n")))

RECURSIVE format_sections(_)
format_sections(sections) ==
    IF sections = <<>> THEN <<>>
    ELSE (IF strip(Head(sections)) = "" THEN <<>>
          ELSE <<format_section(strip(Head(sections)))>>)
         \o format_sections(Tail(sections))

format_response_for_display(text) ==
    IF text = "" THEN MsgNoResponse
    ELSE Join("\n\n", format_sections(split(text, "\n\n")))

---------------------------------------------------------------------------
(* bot_engine.ChemEBot._extract_sources_from_context *)

RECURSIVE findall_sources(_, _)
\* re.findall(r'From ([^:]+):', text), scanning from position `from`
findall_sources(text, from) ==
    LET starts == {i \in from..(Len(text) - 4) :
                      /\ SubSeq(text, i, i + 4) = "From "
                      /\ Find(text, ":", i + 5) > i + 5}
    IN  IF starts = {} THEN <<>>
        ELSE LET i == SetMin(starts)
                 j == Find(text, ":", i + 5)
             IN  <<SubSeq(text, i + 5, j - 1)>> \o findall_sources(text, j + 1)

\* the list returned holds the distinct trimmed labels, in no fixed order
extract_sources_from_context(text) ==
    LET matches == findall_sources(text, 1)
    IN  {strip(matches[k]) : k \in DOMAIN matches}

---------------------------------------------------------------------------
(* search_engine: the providers and the aggregation *)

\* search_terms[:2]
wikipedia_attempts == 2

\* a reply to one Wikipedia lookup: a page (status 200 and its JSON data,
\* "" standing for a missing key), another status, or an exception
\* (connection error, timeout, unparsable body)
PageReply(data) == [kind |-> "page", data |-> data]

NoData == [title |-> "", url |-> "", extract |-> ""]

StatusReply == [kind |-> "status", data |-> NoData]

ExceptionReply == [kind |-> "exception", data |-> NoData]

\* a plausible slip: no break after the page that was found
wikipedia_lookups_no_break(replies, attempts) == Take(replies, attempts)

RECURSIVE wikipedia_lookups(_, _)
\* the replies the lookup loop receives: it stops at the first page
wikipedia_lookups(replies, attempts) ==
    IF attempts = 0 \/ replies = <<>> THEN <<>>
    ELSE IF Head(replies).kind = "page" THEN <<Head(replies)>>
    ELSE <<Head(replies)>> \o wikipedia_lookups(Tail(replies), attempts - 1)

wikipedia_candidate(data) ==
    [title |-> data.title, url |-> data.url, snippet |-> data.extract,
     source |-> "Wikipedia", priority |-> wikipedia_priority]

search_wikipedia(query, replies) ==
    LET received == wikipedia_lookups(replies, wikipedia_attempts)
    IN  IF received # <<>> /\ received[Len(received)].kind = "page"
        THEN <<wikipedia_candidate(received[Len(received)].data)>>
        ELSE <<>>

\* a plausible slip: a failed lookup aborts the whole aggregation
provider_results_abort_on_failure(query, replies) ==
    LET received == wikipedia_lookups(replies, wikipedia_attempts)
    IN  IF \E k \in DOMAIN received : received[k].kind # "page"
        THEN <<>>
        ELSE search_wikipedia(query, replies) \o search_educational_sites(query)

\* the candidates of the two providers, Wikipedia first
provider_results(query, replies) ==
    search_wikipedia(query, replies) \o search_educational_sites(query)

\* what search_web hands to _scrape_search_results
enhanced_query(query) == query \o " chemical engineering"

---------------------------------------------------------------------------
(* prompts.get_chemE_prompt *)

SYSTEM_PROMPT ==
    "\nYou are an expert Chemical Engineering assistant designed to help chemical engineering students and professionals.\n\nYour expertise includes:\n- Process design and optimization\n- Unit operations (distillation, absorption, extraction, etc.)\n- Reaction engineering and kinetics\n- Transport phenomena (heat, mass, and momentum transfer)\n- Thermodynamics and phase equilibria\n- Process safety and HAZOP analysis\n- Equipment design and selection\n- Process control and instrumentation\n\nGuidelines for responses:\n1. Always prioritize safety considerations\n2. Provide clear, step-by-step explanations\n3. Include relevant equations when applicable\n4. Mention real-world applications\n5. Use proper chemical engineering terminology\n6. Cite reliable sources when possible\n7. For calculations, show units and assumptions\n"

QUESTION_TYPES ==
    [calculation |->
        "\n    This is a calculation question. Please:\n    1. Identify the given parameters and what needs to be calculated\n    2. State relevant equations and principles\n    3. Show step-by-step solution with units\n    4. Verify the reasonableness of the result\n    5. Mention any assumptions made\n    ",
     theory |->
        "\n    This is a theoretical question. Please:\n    1. Provide clear conceptual explanation\n    2. Include fundamental principles\n    3. Give practical examples or applications\n    4. Explain the significance in chemical engineering\n    5. Mention related concepts\n    ",
     safety |->
        "\n    This is a safety-related question. Please:\n    1. Prioritize safety information\n    2. Mention relevant safety standards and regulations\n    3. Include hazard identification and risk assessment\n    4. Provide emergency procedures if applicable\n    5. Cite authoritative safety sources\n    ",
     design |->
        "\n    This is a design question. Please:\n    1. Outline the design approach and methodology\n    2. Identify key design parameters and constraints\n    3. Suggest appropriate equipment or process configuration\n    4. Consider economic and safety factors\n    5. Mention industry standards and best practices\n    "]

RESPONSE_FORMAT ==
    "\nStructure your response as follows:\n\n**Overview:** Brief summary of the topic/answer\n\n**Detailed Explanation:** \n- Key concepts and principles\n- Step-by-step analysis (if applicable)\n- Relevant equations and calculations\n\n**Safety Considerations:** (if applicable)\n- Hazards and risks\n- Safety measures and precautions\n\n**Practical Applications:**\n- Real-world examples\n- Industry relevance\n\n**Additional Resources:** (if applicable)\n- Relevant standards or references\n- Further reading suggestions\n"

\* a plausible slip: the context block added whether or not there is a context
get_chemE_prompt_always_context(q, question_type, search_context) ==
    SYSTEM_PROMPT \o "\n\n"
    \o (IF question_type \in DOMAIN QUESTION_TYPES
        THEN QUESTION_TYPES[question_type] \o "\n\n" ELSE "")
    \o RESPONSE_FORMAT \o "\n\n"
    \o "**Additional Context from Current Sources:**\n" \o search_context \o "\n\n"
    \o "**Student Question:** " \o q \o "\n\n"
    \o "**Your Response:**"

get_chemE_prompt(q, question_type, search_context) ==
    SYSTEM_PROMPT \o "\n\n"
    \o (IF question_type \in DOMAIN QUESTION_TYPES
        THEN QUESTION_TYPES[question_type] \o "\n\n" ELSE "")
    \o RESPONSE_FORMAT \o "\n\n"
    \o (IF search_context # ""
        THEN "**Additional Context from Current Sources:**\n" \o search_context \o "\n\n"
        ELSE "")
    \o "**Student Question:** " \o q \o "\n\n"
    \o "**Your Response:**"

---------------------------------------------------------------------------
(* bot_engine.ChemEBot.get_statistics *)

\* the seconds within which a turn counts as recent
recent_seconds == 3600

RECURSIVE count_question_types(_, _)
\* the loop of lines 211-213: question_types after the turns of `history`
count_question_types(history, question_types) ==
    IF history = <<>> THEN question_types
    ELSE LET q_type == Head(history).question_type
             seen == IF q_type \in DOMAIN question_types THEN question_types[q_type] ELSE 0
         IN  count_question_types(
                 Tail(history),
                 [t \in DOMAIN question_types \cup {q_type} |->
                     IF t = q_type THEN seen + 1 ELSE question_types[t]])

\* get_statistics has not been called
NoStatistics ==
    [keys |-> {}, total_questions |-> 0, question_types |-> <<>>,
     recent_questions |-> 0, raised |-> FALSE]

\* a plausible slip: every turn counted under the category of the first one
get_statistics_first_category(has, history, time) ==
    IF ~has
    THEN [NoStatistics EXCEPT !.raised = TRUE]
    ELSE IF history = <<>>
    THEN [keys |-> {"total_questions", "question_types", "average_response_time"},
          total_questions |-> 0, question_types |-> <<>>,
          recent_questions |-> 0, raised |-> FALSE]
    ELSE [keys |-> {"total_questions", "question_types", "recent_questions"},
          total_questions |-> Len(history),
          question_types |-> [t \in {history[1].question_type} |-> Len(history)],
          recent_questions |->
              Cardinality({k \in DOMAIN history :
                              time - history[k].timestamp < recent_seconds}),
          raised |-> FALSE]

\* lines 199-219; a bot whose constructor failed has no conversation_history
\* and the first line raises AttributeError
get_statistics(has, history, time) ==
    IF ~has
    THEN [NoStatistics EXCEPT !.raised = TRUE]
    ELSE IF history = <<>>
    THEN [keys |-> {"total_questions", "question_types", "average_response_time"},
          total_questions |-> 0, question_types |-> <<>>,
          recent_questions |-> 0, raised |-> FALSE]
    ELSE [keys |-> {"total_questions", "question_types", "recent_questions"},
          total_questions |-> Len(history),
          question_types |-> count_question_types(history, <<>>),
          recent_questions |->
              Cardinality({k \in DOMAIN history :
                              time - history[k].timestamp < recent_seconds}),
          raised |-> FALSE]

---------------------------------------------------------------------------
(* bot_engine.ChemEBot.clear_history *)

\* a plausible slip: the empty list is bound to a local name, not to the bot
clear_history_unbound(s) == s

\* line 197: the bot is given a new, empty list as its conversation_history,
\* whether or not it had one
clear_history(s) ==
    [s EXCEPT !.conversation_history = <<>>, !.has_history = TRUE]

---------------------------------------------------------------------------
(* bot_engine.ChemEBot._generate_ai_response *)

MsgNotInitialized ==
    "Sorry, the AI system is not properly initialized. Please check the API configuration."

MsgNoAnswer ==
    "I apologize, but I couldn't generate a response to your question. Please try rephrasing it or asking a different question."

MsgGenerateError(e) ==
    "I encountered an error while generating the response: " \o e \o ". Please try again."

\* a reply of the completion service: a text (possibly empty) or an exception
NotCalled == [kind |-> "not called", text |-> ""]

generate_ai_response(initialized, reply) ==
    IF ~initialized THEN MsgNotInitialized
    ELSE IF reply.kind = "exception" THEN MsgGenerateError(reply.text)
    ELSE IF reply.text # "" THEN reply.text
    ELSE MsgNoAnswer

---------------------------------------------------------------------------
(* utils.log_interaction *)

max_log_entries == 50

max_logged_question == 100

\* a plausible slip: the trim keeps the first 50 entries, not the last 50
log_interaction_keep_oldest(log, q, text, sources) ==
    LET log_entry == [question |-> SubSeq(q, 1, IF Len(q) < max_logged_question
                                                  THEN Len(q) ELSE max_logged_question),
                      response_length |-> Len(text),
                      sources_count |-> Cardinality(sources),
                      timestamp |-> "unknown"]
        appended == Append(log, log_entry)
    IN  IF Len(appended) > max_log_entries
        THEN SubSeq(appended, 1, max_log_entries)
        ELSE appended

log_interaction(log, q, text, sources) ==
    LET log_entry == [question |-> SubSeq(q, 1, IF Len(q) < max_logged_question
                                                  THEN Len(q) ELSE max_logged_question),
                      response_length |-> Len(text),
                      sources_count |-> Cardinality(sources),
                      timestamp |-> "unknown"]
        appended == Append(log, log_entry)
    IN  IF Len(appended) > max_log_entries
        THEN SubSeq(appended, Len(appended) - max_log_entries + 1, Len(appended))
        ELSE appended

---------------------------------------------------------------------------
(* bot_engine.ChemEBot.ask *)

\* the statements of the try block that can raise, in execution order
Steps == <<"categorize_question", "get_relevant_context", "extract_sources",
           "generate_ai_response", "format_response_for_display",
           "log_interaction", "append">>

StepIndex(step) == CHOOSE k \in DOMAIN Steps : Steps[k] = step

MsgApology(e) ==
    "I apologize, but I encountered an error while processing your question: " \o e

MsgNoHistory == "'ChemEBot' object has no attribute 'conversation_history'"

MsgFault == "out of memory"

ResponseKeys == {"answer", "sources", "question_type", "processing_time"}

\* the return of lines 57-62
rejected_response(error_message) ==
    [answer |-> error_message, sources |-> {}, question_type |-> "error",
     processing_time |-> 0, web_context_used |-> FALSE, error |-> "",
     keys |-> ResponseKeys]

\* the return of lines 105-111
success_response(answer, sources, question_type, processing_time, context) ==
    [answer |-> answer, sources |-> sources, question_type |-> question_type,
     processing_time |-> processing_time, web_context_used |-> (context # ""),
     error |-> "", keys |-> ResponseKeys \cup {"web_context_used"}]

\* a plausible slip: the handler reports no processing time
error_response_untimed(e, elapsed) ==
    [answer |-> MsgApology(e), sources |-> {}, question_type |-> "error",
     processing_time |-> 0, web_context_used |-> FALSE, error |-> e,
     keys |-> ResponseKeys \cup {"error"}]

\* the return of lines 113-122
error_response(e, elapsed) ==
    [answer |-> MsgApology(e), sources |-> {}, question_type |-> "error",
     processing_time |-> elapsed, web_context_used |-> FALSE, error |-> e,
     keys |-> ResponseKeys \cup {"error"}]

\* the bot and its session, as ask finds them
Session ==
    [is_initialized |-> is_initialized, has_history |-> has_history,
     conversation_history |-> conversation_history,
     interaction_log |-> interaction_log, now |-> now]

\* lines 68-91 for an initialized or uninitialized bot: what the try block
\* computes before it touches the logs.  `fault` names the step at which the
\* environment makes a call raise ("none": no such exception); every external
\* call (a Wikipedia lookup, the completion call) takes one unit of time
pipeline(initialized, q, web, replies, reply, fault) ==
    LET done(step) == fault = "none" \/ StepIndex(fault) > StepIndex(step)
        question_type == categorize_question(q)
        searched == web /\ done("get_relevant_context")
        received == IF searched THEN wikipedia_lookups(replies, wikipedia_attempts)
                    ELSE <<>>
        provided == IF searched THEN provider_results(enhanced_query(q), replies)
                    ELSE <<>>
        found == combine_results(provided)
        context == render_context(found)
        sources == IF context # "" /\ done("extract_sources")
                   THEN extract_sources_from_context(context) ELSE {}
        called == initialized /\ done("generate_ai_response")
        ai_response == generate_ai_response(initialized, reply)
    IN  [question_type |-> question_type,
         category |-> IF done("categorize_question") THEN question_type ELSE "none",
         wiki_replies |-> received,
         results |-> provided,
         unique_results |-> deduplicate_results(provided),
         search_results |-> found,
         bundle |-> top_results(found),
         web_context |-> context,
         sources |-> sources,
         completion |-> IF called THEN reply ELSE NotCalled,
         prompt |-> IF called THEN get_chemE_prompt(q, question_type, context) ELSE "",
         ai_response |-> ai_response,
         formatted_response |-> format_response_for_display(ai_response),
         elapsed |-> Len(received) + (IF called THEN 1 ELSE 0),
         logged |-> done("log_interaction")]

SessionQuestions ==
    {"hi", "What is distillation and how does it work?", "Tell me more",
     "Is a reactor safer than a heat exchanger?"}

\* the question thread t asks when several threads of a session run ask
ThreadQuestion(t) == "Tell me more about topic " \o ToString(t)

ThreadQuestions == {ThreadQuestion(t) : t \in 1..MaxThreads}

\* a page of its own, whose extract itself reads "From ...:"
PageFractional ==
    [title |-> "Fractional distillation",
     url |-> "https://en.wikipedia.org/wiki/Fractional_distillation",
     extract |-> "From 1990: packed columns replaced trays."]

\* the page the educational table points to as well
PageDistillation ==
    [title |-> "Distillation",
     url |-> "https://en.wikipedia.org/wiki/Distillation",
     extract |-> "Distillation is the process of separating components."]

\* what the two lookups of one call would be answered
WikiReplies ==
    {<<PageReply(PageFractional), StatusReply>>,
     <<ExceptionReply, PageReply(PageDistillation)>>,
     <<StatusReply, ExceptionReply>>}

Completions ==
    {[kind |-> "text", text |-> "**Overview**\n\n- Separation by volatility \n- Reflux"],
     [kind |-> "text", text |-> ""],
     [kind |-> "exception", text |-> "503 service unavailable"]}

Faults == {"none"} \cup {Steps[k] : k \in DOMAIN Steps}

\* validate_input and the pipeline are functions of their arguments alone:
\* their values on the inputs of the session, computed once (f @@ <<>> is f,
\* as an explicit table)
ValidationTable ==
    [q \in SessionQuestions \cup ThreadQuestions |-> validate_input(q)] @@ <<>>

\* the arguments the pipeline can be run with: a valid question, replies of
\* Wikipedia only with the search enabled, a reply of the completion service
\* only to an initialized bot; and the arguments the threads run it with
PipelineInputs ==
    {i \in BOOLEAN \X SessionQuestions \X BOOLEAN \X (WikiReplies \cup {<<>>})
            \X (Completions \cup {NotCalled}) \X Faults :
        /\ ValidationTable[i[2]].is_valid
        /\ i[3] \/ i[4] = <<>>
        /\ i[1] \/ i[5] = NotCalled}
    \cup ({TRUE} \X ThreadQuestions \X {FALSE} \X {<<>>}
            \X {r \in Completions : r.kind = "text" /\ r.text # ""} \X {"none"})

PipelineTable ==
    [i \in PipelineInputs |-> pipeline(i[1], i[2], i[3], i[4], i[5], i[6])] @@ <<>>

validated(q) ==
    IF q \in DOMAIN ValidationTable THEN ValidationTable[q] ELSE validate_input(q)

piped(initialized, q, web, replies, reply, fault) ==
    IF <<initialized, q, web, replies, reply, fault>> \in DOMAIN PipelineTable
    THEN PipelineTable[<<initialized, q, web, replies, reply, fault>>]
    ELSE pipeline(initialized, q, web, replies, reply, fault)

\* lines 54-62: nothing but the validation has run
rejected(s, q, web) ==
    [response |-> rejected_response(validated(q).error_message),
     conversation_history |-> s.conversation_history,
     interaction_log |-> s.interaction_log,
     now |-> s.now, start_time |-> s.now,
     category |-> "none", results |-> <<>>, unique_results |-> <<>>,
     search_results |-> <<>>, bundle |-> <<>>, web_context |-> "",
     wiki_replies |-> <<>>, completion |-> NotCalled, prompt |-> "",
     raised_at |-> "none", raised |-> FALSE]

\* lines 64-122: the try block and its handler
processed(s, q, web, replies, reply, fault) ==
    LET p == piped(s.is_initialized, q, web, replies, reply, fault)
        failing == IF fault # "none" THEN fault
                   ELSE IF ~s.has_history THEN "append"
                   ELSE "none"
        e == IF fault # "none" THEN MsgFault ELSE MsgNoHistory
        turn == [question |-> q, answer |-> p.formatted_response,
                 question_type |-> p.question_type, sources |-> p.sources,
                 timestamp |-> s.now + p.elapsed]
    IN  [response |-> IF failing = "none"
                      THEN success_response(p.formatted_response, p.sources,
                                            p.question_type, p.elapsed, p.web_context)
                      ELSE error_response(e, p.elapsed),
         conversation_history |-> IF failing = "none"
                                  THEN Append(s.conversation_history, turn)
                                  ELSE s.conversation_history,
         interaction_log |-> IF p.logged
                             THEN log_interaction(s.interaction_log, q,
                                                  p.ai_response, p.sources)
                             ELSE s.interaction_log,
         now |-> s.now + p.elapsed, start_time |-> s.now,
         category |-> p.category,
         results |-> p.results,
         unique_results |-> p.unique_results,
         search_results |-> p.search_results,
         bundle |-> p.bundle,
         web_context |-> p.web_context,
         wiki_replies |-> p.wiki_replies,
         completion |-> p.completion,
         prompt |-> p.prompt,
         raised_at |-> failing,
         raised |-> FALSE]

\* a plausible slip: the validation result is looked at after the pipeline ran
ask_validating_late(s, q, web, replies, reply, fault) ==
    IF ~validated(q).is_valid
    THEN [processed(s, q, web, replies, reply, fault)
            EXCEPT !.response = rejected_response(validated(q).error_message)]
    ELSE processed(s, q, web, replies, reply, fault)

ask(s, q, web, replies, reply, fault) ==
    IF ~validated(q).is_valid
    THEN rejected(s, q, web)
    ELSE processed(s, q, web, replies, reply, fault)

---------------------------------------------------------------------------
(* The session: a bot is constructed and asked questions *)

NoResponse ==
    [answer |-> "", sources |-> {}, question_type |-> "none",
     processing_time |-> 0, web_context_used |-> FALSE, error |-> "",
     keys |-> {}]

\* no call of ask has been made
NoCall ==
    /\ calls = 0
    /\ include_web_search = FALSE
    /\ wiki_replies = <<>>
    /\ completion = NotCalled
    /\ injected_fault = "none"
    /\ raised_at = "none"
    /\ raised = FALSE
    /\ start_time = 0
    /\ response = NoResponse
    /\ prompt = ""

\* no thread runs ask
NoThreads ==
    /\ pc = <<>>
    /\ frame = <<>>
    /\ lists = <<>>
    /\ log_at = 0
    /\ appends = <<>>

\* no bot is involved
NoSession ==
    /\ is_initialized = FALSE
    /\ has_history = FALSE
    /\ conversation_history = <<>>
    /\ interaction_log = <<>>
    /\ now = 0
    /\ NoCall

\* ChemEBot.__init__: either the try block runs through, or it raises before
\* conversation_history is assigned and only is_initialized = False is set
Init ==
    /\ op = "init"
    /\ question = ""
    /\ category = "none"
    /\ validation = NoValidation
    /\ results = <<>>
    /\ unique_results = <<>>
    /\ search_results = <<>>
    /\ bundle = <<>>
    /\ web_context = ""
    /\ is_initialized \in BOOLEAN
    /\ has_history = is_initialized
    /\ conversation_history = <<>>
    /\ interaction_log = <<>>
    /\ now = 0
    /\ NoCall
    /\ statistics = NoStatistics
    /\ cleaned = ""
    /\ NoThreads

\* the steps of the try block up to `step` run through
RunsPast(q, fault, step) ==
    /\ validated(q).is_valid
    /\ fault = "none" \/ StepIndex(fault) > StepIndex(step)

\* the environment answers only the calls that are made, and makes only
\* statements raise that are executed
Ask ==
    /\ calls < MaxAsks
    /\ \E q \in SessionQuestions, web \in BOOLEAN, f \in Faults :
       \E replies \in (IF web /\ RunsPast(q, f, "get_relevant_context")
                        THEN WikiReplies ELSE {<<>>}),
          reply \in (IF is_initialized /\ RunsPast(q, f, "generate_ai_response")
                      THEN Completions ELSE {NotCalled}) :
       \E o \in {ask(Session, q, web, replies, reply, f)} :
          /\ validated(q).is_valid \/ f = "none"
          /\ f = "get_relevant_context" => web
          /\ f = "extract_sources" => o.web_context # ""
          /\ injected_fault' = f
          /\ op' = "ask"
          /\ question' = q
          /\ validation' = validated(q)
          /\ include_web_search' = web
          /\ calls' = calls + 1
          /\ category' = o.category
          /\ results' = o.results
          /\ unique_results' = o.unique_results
          /\ search_results' = o.search_results
          /\ bundle' = o.bundle
          /\ web_context' = o.web_context
          /\ conversation_history' = o.conversation_history
          /\ interaction_log' = o.interaction_log
          /\ now' = o.now
          /\ start_time' = o.start_time
          /\ wiki_replies' = o.wiki_replies
          /\ completion' = o.completion
          /\ raised_at' = o.raised_at
          /\ raised' = o.raised
          /\ response' = o.response
          /\ prompt' = o.prompt
          /\ UNCHANGED <<is_initialized, has_history, statistics, cleaned, threadVars>>

Next == Ask

Spec == Init /\ [][Next]_vars

---------------------------------------------------------------------------
(* Sessions whose interaction log is about to be trimmed *)

\* the number of questions the session has answered before
AnsweredBefore == {max_log_entries - 1, max_log_entries}

\* the k-th question of such a session
Asked(k) == IF k % 2 = 1 THEN "Tell me more" ELSE "What is distillation and how does it work?"

\* what the completion service answered each of them
AnswerText == (CHOOSE r \in Completions : r.kind = "text" /\ r.text # "").text

\* the dictionary lines 97-103 appended for q, asked without web search
RecordedTurn(q, time) ==
    [question |-> q, answer |-> format_response_for_display(AnswerText),
     question_type |-> categorize_question(q), sources |-> {}, timestamp |-> time]

\* the bot and its session after n <= 50 questions asked one after the other,
\* each taking one unit of time: nothing has been trimmed
SessionAfter(n) ==
    [is_initialized |-> TRUE, has_history |-> TRUE,
     conversation_history |-> [k \in 1..n |-> RecordedTurn(Asked(k), k)],
     interaction_log |-> [k \in 1..n |-> log_interaction(<<>>, Asked(k), AnswerText, {})[1]],
     now |-> n]

\* calls counts the calls of ask that follow
InitLog ==
    /\ op = "init"
    /\ question = ""
    /\ category = "none"
    /\ validation = NoValidation
    /\ results = <<>>
    /\ unique_results = <<>>
    /\ search_results = <<>>
    /\ bundle = <<>>
    /\ web_context = ""
    /\ \E n \in AnsweredBefore :
          /\ is_initialized = SessionAfter(n).is_initialized
          /\ has_history = SessionAfter(n).has_history
          /\ conversation_history = SessionAfter(n).conversation_history
          /\ interaction_log = SessionAfter(n).interaction_log
          /\ now = SessionAfter(n).now
    /\ NoCall
    /\ statistics = NoStatistics
    /\ cleaned = ""
    /\ NoThreads

SpecLog == InitLog /\ [][Next]_vars

---------------------------------------------------------------------------
(* Threads of one session running ask at the same time. The code takes no *)
(* lock: a thread can be suspended between any two accesses of the shared *)
(* session state, so each access is a step of its own.                    *)

Threads == 1..MaxThreads

\* what a call of ask in a new session returns and appends: q is asked at
\* `time` without web search and answered by the completion service
Answered(q, time) ==
    ask([is_initialized |-> TRUE, has_history |-> TRUE, conversation_history |-> <<>>,
         interaction_log |-> <<>>, now |-> time],
        q, FALSE, <<>>, [kind |-> "text", text |-> AnswerText], "none")

\* the session the threads start in: a new one, or one with a full log
InitThreads ==
    /\ op = "init"
    /\ question = ""
    /\ category = "none"
    /\ validation = NoValidation
    /\ results = <<>>
    /\ unique_results = <<>>
    /\ search_results = <<>>
    /\ bundle = <<>>
    /\ web_context = ""
    /\ \E n \in {0, max_log_entries} :
          /\ is_initialized = SessionAfter(n).is_initialized
          /\ has_history = SessionAfter(n).has_history
          /\ conversation_history = SessionAfter(n).conversation_history
          /\ interaction_log = SessionAfter(n).interaction_log
          /\ now = SessionAfter(n).now
          /\ lists = IF n = 0 THEN <<>> ELSE <<SessionAfter(n).interaction_log>>
          /\ log_at = IF n = 0 THEN 0 ELSE 1
    /\ NoCall
    /\ statistics = NoStatistics
    /\ cleaned = ""
    /\ pc = [t \in Threads |-> "ask"]
    /\ frame = [t \in Threads |->
                  [log_entry |-> <<>>, turn |-> <<>>, absent |-> FALSE, ref |-> 0, sliced |-> 0]]
    /\ appends = <<>>

\* what a step of thread t leaves alone besides the logs
ThreadFrame == <<question, classifyVars, searchVars, is_initialized, has_history,
                 callVars, statistics, cleaned>>

\* _bot_engine.py lines 54-91: validation, classification, completion call and
\* formatting touch nothing shared
Begin(t) ==
    /\ pc[t] = "ask"
    /\ \E o \in {Answered(ThreadQuestion(t), now)} :
          frame' = [frame EXCEPT ![t].log_entry = o.interaction_log[1],
                                 ![t].turn = o.conversation_history[1]]
    /\ now' = now + 1
    /\ pc' = [pc EXCEPT ![t] = "check_key"]
    /\ op' = "ask"
    /\ UNCHANGED <<ThreadFrame, conversation_history, interaction_log, lists, log_at, appends>>

\* utils.py line 242
CheckKey(t) ==
    /\ pc[t] = "check_key"
    /\ frame' = [frame EXCEPT ![t].absent = (log_at = 0)]
    /\ pc' = [pc EXCEPT ![t] = IF log_at = 0 THEN "create" ELSE "load_append"]
    /\ op' = "check_key"
    /\ UNCHANGED <<ThreadFrame, conversation_history, interaction_log, now, lists, log_at,
                   appends>>

\* utils.py line 243
CreateLog(t) ==
    /\ pc[t] = "create"
    /\ lists' = Append(lists, <<>>)
    /\ log_at' = Len(lists')
    /\ interaction_log' = <<>>
    /\ pc' = [pc EXCEPT ![t] = "load_append"]
    /\ op' = "create"
    /\ UNCHANGED <<ThreadFrame, conversation_history, now, frame, appends>>

\* the reads of st.session_state.interaction_log in lines 252, 255 and 256
LoadLog(t) ==
    /\ pc[t] \in {"load_append", "load_len", "load_slice"}
    /\ frame' = [frame EXCEPT ![t].ref = log_at]
    /\ pc' = [pc EXCEPT ![t] = CASE pc[t] = "load_append" -> "append"
                                  [] pc[t] = "load_len" -> "len"
                                  [] pc[t] = "load_slice" -> "slice"]
    /\ op' = "load"
    /\ UNCHANGED <<ThreadFrame, conversation_history, interaction_log, now, lists, log_at,
                   appends>>

\* utils.py line 252: append to the list that was read
AppendEntry(t) ==
    /\ pc[t] = "append"
    /\ lists' = [lists EXCEPT ![frame[t].ref] = Append(@, frame[t].log_entry)]
    /\ interaction_log' = lists'[log_at]
    /\ appends' = Append(appends, t)
    /\ pc' = [pc EXCEPT ![t] = "load_len"]
    /\ op' = "append"
    /\ UNCHANGED <<ThreadFrame, conversation_history, now, frame, log_at>>

\* utils.py line 255
ReadLen(t) ==
    /\ pc[t] = "len"
    /\ pc' = [pc EXCEPT ![t] = IF Len(lists[frame[t].ref]) > max_log_entries
                                THEN "load_slice" ELSE "append_history"]
    /\ op' = "len"
    /\ UNCHANGED <<ThreadFrame, conversation_history, interaction_log, now, frame, lists,
                   log_at, appends>>

\* utils.py line 256, right-hand side: a new list of the last 50 entries
Slice(t) ==
    /\ pc[t] = "slice"
    /\ LET read == lists[frame[t].ref]
           from == IF Len(read) > max_log_entries THEN Len(read) - max_log_entries + 1 ELSE 1
       IN  lists' = Append(lists, SubSeq(read, from, Len(read)))
    /\ frame' = [frame EXCEPT ![t].sliced = Len(lists')]
    /\ pc' = [pc EXCEPT ![t] = "assign"]
    /\ op' = "slice"
    /\ UNCHANGED <<ThreadFrame, conversation_history, interaction_log, now, log_at, appends>>

\* utils.py line 256, the assignment
Assign(t) ==
    /\ pc[t] = "assign"
    /\ log_at' = frame[t].sliced
    /\ interaction_log' = lists[frame[t].sliced]
    /\ pc' = [pc EXCEPT ![t] = "append_history"]
    /\ op' = "assign"
    /\ UNCHANGED <<ThreadFrame, conversation_history, now, frame, lists, appends>>

\* _bot_engine.py lines 97-111: conversation_history is never rebound by ask
AppendHistory(t) ==
    /\ pc[t] = "append_history"
    /\ conversation_history' =
          Append(conversation_history, [frame[t].turn EXCEPT !.timestamp = now])
    /\ pc' = [pc EXCEPT ![t] = "done"]
    /\ op' = "append_history"
    /\ UNCHANGED <<ThreadFrame, interaction_log, now, frame, lists, log_at, appends>>

NextThreads ==
    \E t \in Threads :
        \/ Begin(t)
        \/ CheckKey(t)
        \/ CreateLog(t)
        \/ LoadLog(t)
        \/ AppendEntry(t)
        \/ ReadLen(t)
        \/ Slice(t)
        \/ Assign(t)
        \/ AppendHistory(t)

SpecThreads == InitThreads /\ [][NextThreads]_vars

---------------------------------------------------------------------------
(* Question texts: concatenations of at most MaxTokens vocabulary tokens *)

Vocabulary ==
    {"Safe", "calculate", "What is", " the", "design", "why",
     "hi", " ", "x", "asdf"}

TokenSeqs == UNION {[1..n -> Vocabulary] : n \in 0..MaxTokens}

ShortTexts == {Concat(ts) : ts \in TokenSeqs}

\* 997 filler characters: with 3 more characters the text has 1000
LongFiller == Rep("x", MaxQuestionLen - 3)

\* 998 blanks: with 2 more characters the text has 1000
LongBlank == Rep(" ", MaxQuestionLen - 2)

LongTails == {"", "hi", "hix", "Safe", "asdf", "   ", "hi ", "why", "whyx"}

\* texts around the 1000-character limit
LongTexts == {pad \o t : pad \in {LongFiller, LongBlank}, t \in LongTails}

QuestionTexts == ShortTexts \cup LongTexts

---------------------------------------------------------------------------
(* The classifier and the validator applied to every question text *)

InitClassify ==
    /\ op = "init"
    /\ question \in QuestionTexts
    /\ category = "none"
    /\ validation = NoValidation
    /\ results = <<>>
    /\ unique_results = <<>>
    /\ search_results = <<>>
    /\ bundle = <<>>
    /\ web_context = ""
    /\ NoSession
    /\ statistics = NoStatistics
    /\ cleaned = ""
    /\ NoThreads

CategorizeQuestion ==
    /\ op' = "categorize_question"
    /\ category' = categorize_question(question)
    /\ UNCHANGED <<question, validation, searchVars, botVars, callVars, statistics, cleaned, threadVars>>

ValidateInput ==
    /\ op' = "validate_input"
    /\ validation' = validate_input(question)
    /\ UNCHANGED <<question, category, searchVars, botVars, callVars, statistics, cleaned, threadVars>>

NextClassify == CategorizeQuestion \/ ValidateInput

SpecClassify == InitClassify /\ [][NextClassify]_vars

---------------------------------------------------------------------------
(* Candidate lists handed to the search engine by its providers *)

Candidate(i, url, priority, snippet) ==
    [title |-> "result " \o ToString(i), url |-> url, snippet |-> snippet,
     source |-> "Web", priority |-> priority]

\* lists with repeated and empty urls; the title tells the instances apart
RepeatedUrlLists ==
    UNION {{[i \in 1..n |-> Candidate(i, f[i][1], f[i][2], "text")] :
                f \in [1..n -> {"", "A", "B"} \X {1, 5, 9}]} :
           n \in 0..MaxCandidates}

\* lists with pairwise different urls, some snippets empty
DistinctUrlLists ==
    UNION {{[i \in 1..n |-> Candidate(i, "https://site/" \o ToString(i), f[i][1], f[i][2])] :
                f \in [1..n -> {7, 8} \X {"", "text"}]} :
           n \in 0..MaxRanked}

CandidateLists == RepeatedUrlLists \cup DistinctUrlLists

InitSearch ==
    /\ op = "init"
    /\ question = ""
    /\ category = "none"
    /\ validation = NoValidation
    /\ results \in CandidateLists
    /\ unique_results = <<>>
    /\ search_results = <<>>
    /\ bundle = <<>>
    /\ web_context = ""
    /\ NoSession
    /\ statistics = NoStatistics
    /\ cleaned = ""
    /\ NoThreads

DeduplicateResults ==
    /\ op' = "deduplicate_results"
    /\ unique_results' = deduplicate_results(results)
    /\ UNCHANGED <<question, classifyVars, results, search_results, bundle, web_context,
                   botVars, callVars, statistics, cleaned, threadVars>>

\* get_relevant_context, the providers having returned `results`
GetRelevantContext ==
    /\ op' = "get_relevant_context"
    /\ unique_results' = deduplicate_results(results)
    /\ search_results' = combine_results(results)
    /\ bundle' = top_results(search_results')
    /\ web_context' = render_context(search_results')
    /\ UNCHANGED <<question, classifyVars, results, botVars, callVars, statistics, cleaned, threadVars>>

NextSearch == DeduplicateResults \/ GetRelevantContext

SpecSearch == InitSearch /\ [][NextSearch]_vars

---------------------------------------------------------------------------
(* Conversation histories of at most MaxTurns recorded turns, and the     *)
(* statistics of each                                                      *)

\* the clock when a turn was recorded
TurnTimes == {0, 1000, 4000}

\* the clock when get_statistics is called
CallTimes == {4000, 4600, 7600}

\* a question of each category
CategoryQuestion ==
    [safety |-> "Is it safe?", calculation |-> "calculate it", design |-> "design it",
     theory |-> "why?", general |-> "Tell me more"]

\* the dictionary lines 97-103 append
Turn(c, t) ==
    [question |-> CategoryQuestion[c], answer |-> "Overview", question_type |-> c,
     sources |-> {}, timestamp |-> t]

\* the turns of a history are recorded one after the other
Histories ==
    UNION {{[k \in 1..n |-> Turn(f[k][1], f[k][2])] :
                f \in {g \in [1..n -> Categories \X TurnTimes] :
                          \A k \in 1..(n - 1) : g[k][2] <= g[k + 1][2]}} :
           n \in 0..MaxTurns}

InitStatistics ==
    /\ op = "init"
    /\ question = ""
    /\ category = "none"
    /\ validation = NoValidation
    /\ results = <<>>
    /\ unique_results = <<>>
    /\ search_results = <<>>
    /\ bundle = <<>>
    /\ web_context = ""
    /\ is_initialized \in BOOLEAN
    /\ has_history = is_initialized
    /\ conversation_history \in (IF has_history THEN Histories ELSE {<<>>})
    /\ interaction_log = <<>>
    /\ now \in CallTimes
    /\ NoCall
    /\ statistics = NoStatistics
    /\ cleaned = ""
    /\ NoThreads

GetStatistics ==
    /\ op' = "get_statistics"
    /\ statistics' = get_statistics(has_history, conversation_history, now)
    /\ UNCHANGED <<question, classifyVars, searchVars, botVars, callVars, cleaned, threadVars>>

NextStatistics == GetStatistics

SpecStatistics == InitStatistics /\ [][NextStatistics]_vars

---------------------------------------------------------------------------
(* A session in which the history is also cleared and the statistics are  *)
(* read between the questions                                             *)

ClearHistory ==
    /\ \E o \in {clear_history(Session)} :
          /\ conversation_history' = o.conversation_history
          /\ has_history' = o.has_history
    /\ op' = "clear_history"
    /\ UNCHANGED <<question, classifyVars, searchVars, is_initialized, interaction_log,
                   now, callVars, statistics, cleaned, threadVars>>

NextSession == Ask \/ ClearHistory \/ GetStatistics

SpecSession == Init /\ [][NextSession]_vars

---------------------------------------------------------------------------
(* Raw texts of at most MaxChars characters, and the cleaning of each *)

\* a letter, two whitespace characters, two removed and one kept character
RawChars == {"a", " ", "\n", "!", ",", "+"}

RawTexts == {Concat(cs) : cs \in UNION {[1..n -> RawChars] : n \in 0..MaxChars}}

InitClean ==
    /\ op = "init"
    /\ question \in RawTexts
    /\ category = "none"
    /\ validation = NoValidation
    /\ results = <<>>
    /\ unique_results = <<>>
    /\ search_results = <<>>
    /\ bundle = <<>>
    /\ web_context = ""
    /\ NoSession
    /\ statistics = NoStatistics
    /\ cleaned = ""
    /\ NoThreads

CleanText ==
    /\ op' = "clean_text"
    /\ cleaned' = clean_text(question)
    /\ UNCHANGED <<question, classifyVars, searchVars, botVars, callVars, statistics,
                   threadVars>>

SpecClean == InitClean /\ [][CleanText]_vars

---------------------------------------------------------------------------
(* Prompts composed for every category, with and without a context *)

\* rendered contexts: none, one block, two blocks
PromptContexts ==
    {"",
     "From Educational: A chemical reactor is an enclosed volume in which a chemical reaction takes place.",
     "From Wikipedia: Distillation is the process of separating components.\n\nFrom Educational: A heat exchanger is a system used to transfer heat between two or more fluids."}

InitPrompt ==
    /\ op = "init"
    /\ question \in SessionQuestions \cup ThreadQuestions
    /\ category \in Categories
    /\ validation = NoValidation
    /\ results = <<>>
    /\ unique_results = <<>>
    /\ search_results = <<>>
    /\ bundle = <<>>
    /\ web_context \in PromptContexts
    /\ NoSession
    /\ statistics = NoStatistics
    /\ cleaned = ""
    /\ NoThreads

GetChemEPrompt ==
    /\ op' = "get_chemE_prompt"
    /\ prompt' = get_chemE_prompt(question, category, web_context)
    /\ UNCHANGED <<question, classifyVars, searchVars, botVars, calls, include_web_search,
                   wiki_replies, completion, injected_fault, raised_at, raised, start_time,
                   response, statistics, cleaned, threadVars>>

SpecPrompt == InitPrompt /\ [][GetChemEPrompt]_vars

---------------------------------------------------------------------------
(* C1: a question whose lower-cased text contains a safety keyword and a  *)
(* calculation keyword is categorized "safety".                           *)

C1_SafetyDominatesCalculation ==
    (category # "none"
        /\ AnyIn(safety_words, lower(question))
        /\ AnyIn(calc_words, lower(question)))
    => category = "safety"

C1_Witness ==
    /\ category = "safety"
    /\ In("safe", lower(question))
    /\ In("calculate", lower(question))

---------------------------------------------------------------------------
(* C7 (as amended): validate_input rejects every empty or all-blank       *)
(* question with the empty-question message, rejects every question whose *)
(* trimmed text has fewer than 3 characters, rejects every question of    *)
(* more than 1000 characters whose trimmed text has at least 3 characters *)
(* with the length message, and accepts every question of at most 1000    *)
(* characters whose trimmed text has at least 3 characters and that       *)
(* contains no disallowed token.                                          *)

HasDisallowedToken(q) ==
    \/ In("spam", lower(q))
    \/ In("test123", lower(q))
    \/ In("asdf", lower(q))

TrimmedLen(q) == Len(strip(q))

C7_ValidateOnTrimmedText ==
    op = "validate_input" =>
        /\ TrimmedLen(question) = 0
             => validation = [is_valid |-> FALSE, error_message |-> MsgEmpty]
        /\ TrimmedLen(question) < 3 => ~validation.is_valid
        /\ (TrimmedLen(question) >= 3 /\ Len(question) > 1000)
             => validation = [is_valid |-> FALSE, error_message |-> MsgLong]
        /\ (TrimmedLen(question) >= 3 /\ Len(question) <= 1000
                /\ ~HasDisallowedToken(question))
             => validation = [is_valid |-> TRUE, error_message |-> ""]

\* a question of exactly 1000 characters is accepted, one of exactly 3 too
C7_Witness ==
    /\ op = "validate_input"
    /\ Len(question) = 1000
    /\ TrimmedLen(question) = 1000
    /\ validation.is_valid

\* C7 as stated: the limits 3 and 1000 taken on the raw text
C7_AsStated ==
    op = "validate_input" =>
        /\ question = ""
             => validation = [is_valid |-> FALSE, error_message |-> MsgEmpty]
        /\ Len(question) < 3 => ~validation.is_valid
        /\ Len(question) > 1000
             => validation = [is_valid |-> FALSE, error_message |-> MsgLong]
        /\ (Len(question) >= 3 /\ Len(question) <= 1000
                /\ ~HasDisallowedToken(question))
             => validation.is_valid

---------------------------------------------------------------------------
(* C2: _deduplicate_results keeps, for every non-empty url, only the      *)
(* first candidate in input order that carries it, and returns the kept   *)
(* candidates by priority descending, equal priorities in input order.    *)

HasUrl(r) == r.url # ""

\* positions of the first carriers of the non-empty urls
FirstCarriers(rs) ==
    {i \in DOMAIN rs : rs[i].url # "" /\ \A j \in 1..(i - 1) : rs[j].url # rs[i].url}

\* position i goes before position j in the ranking
RanksBefore(rs, i, j) ==
    \/ rs[i].priority > rs[j].priority
    \/ rs[i].priority = rs[j].priority /\ i < j

RankOf(rs, i) == Cardinality({j \in FirstCarriers(rs) : RanksBefore(rs, j, i)}) + 1

C2_FirstCarrierKeptThenRanked ==
    op = "deduplicate_results" =>
        LET named == SelectSeq(unique_results, HasUrl)
        IN  /\ Len(named) = Cardinality(FirstCarriers(results))
            /\ \A i \in FirstCarriers(results) : named[RankOf(results, i)] = results[i]

\* [(A,1),(B,5),(A,9)] yields [(B,5),(A,1)]
C2_Witness ==
    /\ op = "deduplicate_results"
    /\ results = <<Candidate(1, "A", 1, "text"), Candidate(2, "B", 5, "text"),
                   Candidate(3, "A", 9, "text")>>
    /\ unique_results = <<Candidate(2, "B", 5, "text"), Candidate(1, "A", 1, "text")>>

---------------------------------------------------------------------------
(* C3: during deduplication every candidate whose url is empty is kept,   *)
(* so N empty-url candidates in give N empty-url candidates out.          *)

NoUrl(r) == r.url = ""

C3_EmptyUrlCandidatesKept ==
    op = "deduplicate_results" =>
        Len(SelectSeq(unique_results, NoUrl)) = Len(SelectSeq(results, NoUrl))

---------------------------------------------------------------------------
(* C4: whatever the number of candidates, get_relevant_context renders at *)
(* most 3 candidates, the first 3 of the deduplicated, priority-sorted    *)
(* candidate list.                                                        *)

C4_BundleIsTopThree ==
    op = "get_relevant_context" =>
        /\ Len(bundle) <= 3
        /\ Len(bundle) = (IF Len(unique_results) < 3 THEN Len(unique_results) ELSE 3)
        /\ \A k \in 1..Len(bundle) : bundle[k] = unique_results[k]
        /\ \A i \in FirstCarriers(results) :
               RankOf(results, i) <= 3 => bundle[RankOf(results, i)] = results[i]
        /\ web_context = Join("\n\n", context_parts(bundle))

\* more candidates survive than max_results admits, three are rendered
C4_Witness ==
    /\ op = "get_relevant_context"
    /\ Len(unique_results) > 5
    /\ Len(bundle) = 3
    /\ \A k \in 1..3 : bundle[k].snippet # ""

---------------------------------------------------------------------------
(* C5: the source list ask returns is the set of distinct source labels   *)
(* of the bundle entries rendered into the context (those with a          *)
(* non-empty snippet), whatever the snippet texts are.                    *)

RenderedLabels ==
    {bundle[k].source : k \in {j \in DOMAIN bundle : bundle[j].snippet # ""}}

C5_SourcesAreRenderedLabels ==
    (op = "ask" /\ validation.is_valid /\ raised_at = "none")
    => response.sources = RenderedLabels

---------------------------------------------------------------------------
(* C6: context aggregation never raises and a failing Wikipedia lookup    *)
(* only removes its own contribution: get_relevant_context still returns  *)
(* the rendered snippets of the static-table candidates matching the      *)
(* query, and the empty text when every provider yields nothing.          *)

LineDistillation ==
    "From Educational: Distillation is a separation process that exploits differences in volatility of components in a liquid mixture."

LineReactor ==
    "From Educational: A chemical reactor is an enclosed volume in which a chemical reaction takes place."

LineHeatExchanger ==
    "From Educational: A heat exchanger is a system used to transfer heat between two or more fluids."

\* the static-table snippets each question of the session matches
StaticContext ==
    [q \in SessionQuestions |->
        CASE q = "What is distillation and how does it work?" -> LineDistillation
          [] q = "Is a reactor safer than a heat exchanger?" ->
                LineReactor \o "\n\n" \o LineHeatExchanger
          [] OTHER -> ""] @@ <<>>

ContextRequested ==
    /\ op = "ask"
    /\ validation.is_valid
    /\ include_web_search
    /\ injected_fault \notin {"categorize_question", "get_relevant_context"}

LookupsFailed ==
    /\ wiki_replies # <<>>
    /\ \A k \in DOMAIN wiki_replies : wiki_replies[k].kind # "page"

C6_FailedLookupKeepsStaticSnippets ==
    ContextRequested =>
        /\ ~raised
        /\ LookupsFailed => web_context = StaticContext[question]
        /\ results = <<>> => web_context = ""

C6_Witness ==
    /\ ContextRequested
    /\ wiki_replies = <<StatusReply, ExceptionReply>>
    /\ web_context = LineReactor \o "\n\n" \o LineHeatExchanger

---------------------------------------------------------------------------
(* C8: a call of ask with a question that fails validation returns the    *)
(* validation message with no sources and processing time 0, and does so  *)
(* before any processing: no lookup, no completion call, conversation     *)
(* history and interaction log unchanged.                                 *)

C8_RejectedBeforeProcessing ==
    [][(calls' = calls + 1 /\ ~validation'.is_valid) =>
          /\ response'.answer = validation'.error_message
          /\ response'.sources = {}
          /\ response'.processing_time = 0
          /\ response'.question_type = "error"
          /\ wiki_replies' = <<>>
          /\ completion' = NotCalled
          /\ conversation_history' = conversation_history
          /\ interaction_log' = interaction_log]_vars

\* a rejected question after a recorded turn
C8_Witness ==
    /\ op = "ask"
    /\ ~validation.is_valid
    /\ response.answer = "Please enter a more detailed question."
    /\ Len(conversation_history) = 1
    /\ Len(interaction_log) = 1

---------------------------------------------------------------------------
(* C9: when the completion service fails (bot not initialized, empty      *)
(* result, exception during the call), ask substitutes the fallback       *)
(* string of that failure kind and returns a successful-shaped result:    *)
(* the classifier's category, sources and web_context_used present, the   *)
(* turn recorded in the conversation history.                             *)

CompletionFailed ==
    \/ ~is_initialized
    \/ completion.kind = "exception"
    \/ completion.kind = "text" /\ completion.text = ""

Fallback ==
    IF ~is_initialized
    THEN "Sorry, the AI system is not properly initialized. Please check the API configuration."
    ELSE IF completion.kind = "exception"
    THEN "I encountered an error while generating the response: "
            \o completion.text \o ". Please try again."
    ELSE "I apologize, but I couldn't generate a response to your question. Please try rephrasing it or asking a different question."

C9_CompletionFailureStillSucceeds ==
    (op = "ask" /\ validation.is_valid /\ injected_fault = "none" /\ CompletionFailed) =>
        /\ response.answer = Fallback
        /\ response.question_type = category
        /\ response.question_type \in Categories
        /\ {"sources", "web_context_used"} \subseteq response.keys
        /\ has_history
        /\ conversation_history # <<>>
        /\ conversation_history[Len(conversation_history)].question = question
        /\ conversation_history[Len(conversation_history)].answer = Fallback

---------------------------------------------------------------------------
(* C10: for a valid question, an exception raised at a step of the ask    *)
(* pipeline never leaves ask: the result has category "error", the        *)
(* apologetic message as answer, no sources, and as processing time the   *)
(* time elapsed since the pipeline started.                               *)

C10_ExceptionBecomesErrorResult ==
    (op = "ask" /\ validation.is_valid /\ raised_at # "none") =>
        /\ ~raised
        /\ response.question_type = "error"
        /\ response.answer =
              "I apologize, but I encountered an error while processing your question: "
                 \o response.error
        /\ response.sources = {}
        /\ response.processing_time = now - start_time

\* the history append raised after two lookups and the completion call
C10_Witness ==
    /\ op = "ask"
    /\ validation.is_valid
    /\ raised_at = "append"
    /\ Len(wiki_replies) = 2
    /\ completion.kind = "text"
    /\ response.question_type = "error"
    /\ response.processing_time = 3

---------------------------------------------------------------------------
(* C11: after any sequence of recorded turns, get_statistics reports as   *)
(* total the number of turns in the history and a histogram that holds,   *)
(* for each category, the number of turns of that category (no entry for  *)
(* a category without turns), so that the counts sum to the total.        *)

TurnsOf(c) == {k \in DOMAIN conversation_history : conversation_history[k].question_type = c}

RECURSIVE SumOver(_, _)
\* the sum of the counts f holds for the categories in S
SumOver(f, S) ==
    IF S = {} THEN 0
    ELSE LET c == CHOOSE x \in S : TRUE IN f[c] + SumOver(f, S \ {c})

C11_StatisticsCountTurns ==
    (op = "get_statistics" /\ has_history) =>
        /\ ~statistics.raised
        /\ statistics.total_questions = Len(conversation_history)
        /\ DOMAIN statistics.question_types = {c \in Categories : TurnsOf(c) # {}}
        /\ \A c \in DOMAIN statistics.question_types :
               statistics.question_types[c] = Cardinality(TurnsOf(c))
        /\ SumOver(statistics.question_types, DOMAIN statistics.question_types)
              = statistics.total_questions

\* turns of categories safety, theory, theory
C11_Witness ==
    /\ op = "get_statistics"
    /\ Len(conversation_history) = 3
    /\ conversation_history[1].question_type = "safety"
    /\ conversation_history[2].question_type = "theory"
    /\ conversation_history[3].question_type = "theory"
    /\ statistics.total_questions = 3
    /\ statistics.question_types = [safety |-> 1, theory |-> 2]

---------------------------------------------------------------------------
(* C12: the turn logs are append-only. A successful call of ask adds      *)
(* exactly one entry at the end of the conversation history and of the    *)
(* interaction log and leaves the earlier entries and their order as they *)
(* were; when the interaction log would exceed 50 entries its oldest      *)
(* entry is removed, so that it never holds more than 50 entries and      *)
(* always holds the most recent ones in insertion order. A call that      *)
(* returns an error removes and reorders nothing.                         *)

\* new is old with one entry added at the end, the oldest ones dropped beyond `most`
AddedAtEnd(old, new, most) ==
    LET dropped == IF Len(old) + 1 > most THEN Len(old) + 1 - most ELSE 0
    IN  /\ Len(new) = Len(old) + 1 - dropped
        /\ \A k \in 1..(Len(new) - 1) : new[k] = old[k + dropped]

C12_LogsAppendOnly ==
    [][calls' = calls + 1 =>
          /\ Len(interaction_log') <= 50
          /\ response'.question_type # "error" =>
                /\ AddedAtEnd(conversation_history, conversation_history',
                              Len(conversation_history) + 1)
                /\ conversation_history'[Len(conversation_history')].question = question'
                /\ conversation_history'[Len(conversation_history')].timestamp = now'
                /\ AddedAtEnd(interaction_log, interaction_log', 50)
                /\ interaction_log'[Len(interaction_log')].question = question'
          /\ response'.question_type = "error" =>
                /\ conversation_history' = conversation_history
                /\ \/ interaction_log' = interaction_log
                   \/ AddedAtEnd(interaction_log, interaction_log', 50)]_vars

\* the 52nd question of a session: two entries have been trimmed
C12_Witness ==
    /\ op = "ask"
    /\ response.question_type # "error"
    /\ Len(conversation_history) = 52
    /\ Len(interaction_log) = 50
    /\ interaction_log[50].question = question
    /\ interaction_log[49].question # question

---------------------------------------------------------------------------
(* C13: for the question "What is distillation and how does it work?"     *)
(* asked with context aggregation enabled, whatever the Wikipedia lookups *)
(* return or however they fail, the category is theory, the context       *)
(* bundle contains the distillation entry of the static table, and the    *)
(* rendered context contains the line starting "From Educational:         *)
(* Distillation is a separation process".                                 *)
(* Stated for the calls of an initialized bot in which no statement       *)
(* raises.                                                                *)

HasLineStarting(text, start) == startswith(text, start) \/ In("\n" \o start, text)

C13_DistillationEndToEnd ==
    (ContextRequested /\ is_initialized /\ injected_fault = "none"
        /\ question = "What is distillation and how does it work?") =>
        /\ category = "theory"
        /\ \E k \in DOMAIN bundle :
               /\ bundle[k].source = "Educational"
               /\ bundle[k].title = "Distillation - Chemical Engineering"
        /\ HasLineStarting(web_context,
                           "From Educational: Distillation is a separation process")

---------------------------------------------------------------------------
(* C14: clean_text is idempotent, clean_text(clean_text(x)) equals        *)
(* clean_text(x) for every text x, and the empty text yields the empty    *)
(* text.                                                                  *)

C14_CleanTextIdempotent ==
    op = "clean_text" =>
        /\ clean_text(cleaned) = cleaned
        /\ question = "" => cleaned = ""

\* a text that cleaning changes, and changes to more than nothing
C14_Witness ==
    /\ op = "clean_text"
    /\ question = "a!\n+"
    /\ cleaned = "a +"
    /\ clean_text(cleaned) = "a +"

---------------------------------------------------------------------------
(* C15: when two or more calls of ask of the same session run at the same *)
(* time, the appends to the logs are serialized: in every interleaving    *)
(* the entry of each completed call is in the conversation history and in *)
(* the interaction log exactly once (none is lost, also when the log is   *)
(* trimmed to 50), and the entries are in the order of their appends.     *)

LoggedAt(t) ==
    {k \in DOMAIN interaction_log : interaction_log[k].question = ThreadQuestion(t)}

RecordedAt(t) ==
    {k \in DOMAIN conversation_history : conversation_history[k].question = ThreadQuestion(t)}

C15_AppendsSerialized ==
    (\A t \in Threads : pc[t] = "done") =>
        /\ \A t \in Threads : Cardinality(LoggedAt(t)) = 1 /\ Cardinality(RecordedAt(t)) = 1
        /\ \A i, j \in DOMAIN appends :
               i < j => \A k \in LoggedAt(appends[i]), m \in LoggedAt(appends[j]) : k < m

---------------------------------------------------------------------------
(* C16: categorize_question returns the category of the first keyword     *)
(* set, in the order safety, calculation, design, theory, that has a      *)
(* keyword occurring in the lower-cased question, and "general" exactly   *)
(* when no keyword of the four sets occurs: a question with a calculation *)
(* and a design keyword and no safety keyword is "calculation", one with  *)
(* a design and a theory keyword and no safety or calculation keyword is  *)
(* "design".                                                              *)

Mentions(words) == \E w \in words : In(w, lower(question))

C16_FirstMatchingSetWins ==
    op = "categorize_question" =>
        /\ category = "safety" <=> Mentions(safety_words)
        /\ category = "calculation" <=> (~Mentions(safety_words) /\ Mentions(calc_words))
        /\ category = "design" <=>
              (~Mentions(safety_words) /\ ~Mentions(calc_words) /\ Mentions(design_words))
        /\ category = "theory" <=>
              (~Mentions(safety_words) /\ ~Mentions(calc_words)
                  /\ ~Mentions(design_words) /\ Mentions(theory_words))
        /\ category = "general" <=>
              ~Mentions(safety_words \cup calc_words \cup design_words \cup theory_words)

\* a design and a theory keyword, no safety or calculation keyword
C16_Witness ==
    /\ op = "categorize_question"
    /\ question = "designwhy"
    /\ category = "design"

---------------------------------------------------------------------------
(* C17: the rendered context holds, in bundle order, one block            *)
(* "From {source}: {snippet}" for each of the at most 3 bundle entries    *)
(* with a non-empty snippet, the blocks separated by one blank line, and  *)
(* nothing for an entry with an empty snippet; it is the empty text       *)
(* exactly when no bundle entry has a non-empty snippet.                  *)

HasSnippet(r) == r.snippet # ""

C17_OneBlockPerSnippet ==
    op = "get_relevant_context" =>
        LET shown == SelectSeq(bundle, HasSnippet)
        IN  /\ Len(bundle) <= 3
            /\ web_context = "" <=> shown = <<>>
            /\ shown # <<>> =>
                  /\ Len(split(web_context, "\n\n")) = Len(shown)
                  /\ \A k \in DOMAIN shown :
                         split(web_context, "\n\n")[k]
                            = "From " \o shown[k].source \o ": " \o shown[k].snippet

\* the second of three bundle entries has no snippet
C17_Witness ==
    /\ op = "get_relevant_context"
    /\ Len(bundle) = 3
    /\ bundle[1].snippet = "text"
    /\ bundle[2].snippet = ""
    /\ bundle[3].snippet = "text"
    /\ web_context = "From Web: text\n\nFrom Web: text"

---------------------------------------------------------------------------
(* C18: get_chemE_prompt builds the prompt from its parts in the order    *)
(* system framing, category instruction block, response-structure         *)
(* template, context block, question, trailing cue; the instruction block *)
(* is present exactly when the category is calculation, theory, safety or *)
(* design (absent for general), the context header and block exactly     *)
(* when the rendered context is non-empty; the framing, the template, the *)
(* question and the cue are always present.                               *)

ContextHeader == "**Additional Context from Current Sources:**"

InstructionOpenings ==
    {"This is a calculation question.", "This is a theoretical question.",
     "This is a safety-related question.", "This is a design question."}

\* the position after the first occurrence of part at or after from, 0 if none
After(text, part, from) ==
    IF from = 0 \/ Find(text, part, from) = 0 THEN 0 ELSE Find(text, part, from) + Len(part)

C18_PromptParts ==
    op = "get_chemE_prompt" =>
        LET instructed == category \in {"calculation", "theory", "safety", "design"}
            a == After(prompt, SYSTEM_PROMPT, 1)
            b == IF instructed THEN After(prompt, QUESTION_TYPES[category], a) ELSE a
            c == After(prompt, RESPONSE_FORMAT, b)
            d == IF web_context # ""
                 THEN After(prompt, ContextHeader \o "\n" \o web_context, c) ELSE c
            e == After(prompt, "**Student Question:** " \o question, d)
            f == After(prompt, "**Your Response:**", e)
        IN  /\ a = Len(SYSTEM_PROMPT) + 1
            /\ f = Len(prompt) + 1
            /\ instructed <=> \E opening \in InstructionOpenings : In(opening, prompt)
            /\ web_context # "" <=> In(ContextHeader, prompt)

\* an instruction block and a context block
C18_Witness ==
    /\ op = "get_chemE_prompt"
    /\ category = "safety"
    /\ In("This is a safety-related question.", prompt)
    /\ In(ContextHeader \o "\nFrom Wikipedia: Distillation is the process", prompt)
    /\ endswith(prompt, "**Student Question:** " \o question \o "\n\n**Your Response:**")

---------------------------------------------------------------------------
(* C19: for every query the Wikipedia provider issues at most 2 lookups   *)
(* and returns at most one candidate: the second lookup is issued only if *)
(* the first ended in a non-success status or an exception, no lookup is  *)
(* issued after a successful one, and if both lookups fail it returns no  *)
(* candidate.                                                             *)

FromWikipedia(r) == r.source = "Wikipedia"

C19_LookupsStopAtFirstPage ==
    ContextRequested =>
        /\ Len(wiki_replies) <= 2
        /\ Len(wiki_replies) = 2 => wiki_replies[1].kind \in {"status", "exception"}
        /\ \A k \in 1..(Len(wiki_replies) - 1) : wiki_replies[k].kind # "page"
        /\ Len(SelectSeq(results, FromWikipedia)) <= 1
        /\ LookupsFailed => SelectSeq(results, FromWikipedia) = <<>>
        /\ SelectSeq(results, FromWikipedia) # <<>>
              => wiki_replies[Len(wiki_replies)].kind = "page"

\* the first lookup raised, the second found a page
C19_Witness ==
    /\ ContextRequested
    /\ Len(wiki_replies) = 2
    /\ wiki_replies[1].kind = "exception"
    /\ wiki_replies[2].kind = "page"
    /\ Len(SelectSeq(results, FromWikipedia)) = 1
    /\ results[1].title = "Distillation"

---------------------------------------------------------------------------
(* C20: when ask is called with include_web_search false, no provider is  *)
(* invoked, the prompt is composed with an empty context, and the result  *)
(* for a valid question has an empty source list and web_context_used     *)
(* false; with include_web_search true, web_context_used is true exactly  *)
(* when the rendered context is non-empty, and the source list is         *)
(* non-empty only if web_context_used is true. Stated for the calls in    *)
(* which the environment makes no statement raise; a result without the  *)
(* key web_context_used counts as web_context_used false.                 *)

C20_SwitchDecidesContext ==
    (op = "ask" /\ validation.is_valid /\ injected_fault = "none") =>
        /\ ~include_web_search =>
              /\ wiki_replies = <<>>
              /\ results = <<>>
              /\ web_context = ""
              /\ ~In("**Additional Context from Current Sources:**", prompt)
              /\ response.sources = {}
              /\ ~response.web_context_used
        /\ include_web_search =>
              /\ response.web_context_used <=> web_context # ""
              /\ response.sources # {} => response.web_context_used

---------------------------------------------------------------------------
(* C21: for every conversation history, including the empty one,          *)
(* get_statistics reports all three aggregates: the total turn count, the *)
(* category histogram, and the count of turns recorded within the last    *)
(* hour, which is the number of turns whose timestamp is less than 3600   *)
(* seconds before the call.                                               *)

\* the turns recorded less than an hour before the call
RecentTurns ==
    {k \in DOMAIN conversation_history : now - conversation_history[k].timestamp < 3600}

C21_ThreeAggregates ==
    (op = "get_statistics" /\ has_history) =>
        /\ ~statistics.raised
        /\ {"total_questions", "question_types", "recent_questions"} \subseteq statistics.keys
        /\ statistics.total_questions = Len(conversation_history)
        /\ DOMAIN statistics.question_types = {c \in Categories : TurnsOf(c) # {}}
        /\ statistics.recent_questions = Cardinality(RecentTurns)

---------------------------------------------------------------------------
(* C22: after any sequence of ask and clear_history calls, the            *)
(* conversation history holds exactly one turn for each ask since the     *)
(* last clear_history that returned a non-error category, in call order,  *)
(* and every recorded turn's category is one of calculation, theory,      *)
(* safety, design, general; asks that returned category "error" (invalid  *)
(* input or caught exception) contribute no turn, and clear_history       *)
(* leaves the history empty so that get_statistics then reports total 0   *)
(* and an empty histogram. Stated call by call: each call changes the     *)
(* history as the claim says.                                             *)

\* the turn an ask that returned `r` for the question q stands for
TurnOf(q, r, history) ==
    /\ Len(history) > 0
    /\ history[Len(history)].question = q
    /\ history[Len(history)].question_type = r.question_type
    /\ history[Len(history)].answer = r.answer

C22_HistoryFollowsCalls ==
    [][/\ op' = "ask" /\ response'.question_type = "error" =>
              conversation_history' = conversation_history
       /\ op' = "ask" /\ response'.question_type # "error" =>
              /\ Len(conversation_history') = Len(conversation_history) + 1
              /\ SubSeq(conversation_history', 1, Len(conversation_history))
                    = conversation_history
              /\ TurnOf(question', response', conversation_history')
              /\ response'.question_type \in Categories
       /\ op' = "clear_history" => conversation_history' = <<>>
       /\ op = "clear_history" /\ op' = "get_statistics" =>
              /\ ~statistics'.raised
              /\ statistics'.total_questions = 0
              /\ statistics'.question_types = <<>>
       /\ op' = "get_statistics" => conversation_history' = conversation_history
       /\ \A k \in DOMAIN conversation_history' :
              conversation_history'[k].question_type \in Categories]_vars

\* the last ask was recorded, the history was cleared after it, and the
\* statistics read then report no turn
C22_Witness ==
    /\ op = "get_statistics"
    /\ is_initialized
    /\ calls = 2
    /\ response.question_type \in Categories
    /\ conversation_history = <<>>
    /\ ~statistics.raised
    /\ statistics.total_questions = 0
    /\ statistics.question_types = <<>>

=============================================================================
